---- MODULE Spec2Model ----
(***************************************************************************)
(* Geometry update engine of PISM (src/src/base/iMgeometry.cc):            *)
(*   computeDrivingStress, updateSurfaceElevationAndMask and               *)
(*   massContExplicitStep, run on a periodic Mx x My grid that is split    *)
(*   between two processes along x.  Every ghosted field is a pair: the    *)
(*   values held by the owners (vX) and, per process, the ghost copies     *)
(*   (gX) that only a ghost communication refreshes.                       *)
(*                                                                         *)
(* Arithmetic is exact integer arithmetic:                                 *)
(*   - thickness, bed, sea level are integers in centimetres;              *)
(*   - surface elevation h is stored multiplied by ocean_rho, so that      *)
(*     (1 - rho/ocean_rho) * H needs no division;                          *)
(*   - horizontal lengths are measured in grid spacings (dx = dy = 1),     *)
(*     velocities in grid spacings per time unit.                          *)
(***************************************************************************)
EXTENDS Integers, Sequences, FiniteSets

\* ------------------------------------------------------------------ grid
Mx == 3
My == 3
Cell == (0..(Mx-1)) \X (0..(My-1))
Procs == {0, 1}

\* ------------------------------------------------------------ mask values
MASK_UNKNOWN == -1
MASK_SHEET == 1
MASK_DRAGGING_SHEET == 2
MASK_FLOATING == 3
MASK_OCEAN_AT_TIME_0 == 7

\* PismModMask(): OCEAN_AT_TIME_0 counts as FLOATING in the neighbour vote.
PismModMask(m) == IF m > MASK_FLOATING THEN m - 4 ELSE m

\* IceModelVec2Mask::is_floating / is_grounded on a mask value.
is_floating(m) == m = MASK_FLOATING \/ m = MASK_OCEAN_AT_TIME_0
is_grounded(m) == m = MASK_SHEET \/ m = MASK_DRAGGING_SHEET

\* ------------------------------------------------------ physical constants
\* ice->rho and config "sea_water_density": ratio 0.92
ice_rho == 23
ocean_rho == 25
\* the literal 1.0 (metres) of the flotation tests, in centimetres
hysteresis == 100
\* minThickEtaTransform = 5.0 m, in centimetres
minThickEtaTransform == 500

VARIABLES
  cut,              \* grid.xs of process 1: process 0 owns columns 0..cut-1
  config,           \* the configuration flags read by the three procedures
  vH, gH,           \* ice thickness: owners' values, ghost copies
  vbed,             \* bed elevation (never written here)
  vh, gh,           \* surface elevation (times ocean_rho)
  vMask, gMask,     \* flow-type mask
  currentSeaLevel,  \* sea level returned by the ocean model at the last call
  dt,               \* length of the current time step
  vel,              \* velocity fields supplied by the stress balance code:
                    \*   ub, vb, uvbar0, uvbar1, ubarssa, vbarssa
  acab,             \* surface mass balance given by the surface model
  shelfbmassflux,   \* shelf base mass flux given by the ocean model
  vbasalMeltRate,   \* basal melt rate of grounded ice
  vdHdt,            \* diagnostic thickening rate, a fraction or GSL_NAN
  gdHdtav, dvoldt,  \* average thickening rate and volume rate (fractions)
  gicecount,        \* number of cells with H > 0, summed over the processes
  vtaudx, vtaudy,   \* driving stress written by computeDrivingStress
  pc,               \* "run", or "error" once SETERRQ has been raised
  errAt,            \* the cells (i,j) reported by SETERRQ2, {} if none
  last,             \* name of the procedure that returned last
  pre,              \* fields on entry of the procedure that returned last
  nsteps,           \* number of mass continuity steps taken so far
  surface, ocean,   \* the boundary models: what max_timestep reports
                    \*   (restrict, max_dt) and the step lengths my_dt of
                    \*   the calls of update so far
  one_year          \* one_year_from_now - current_time, in seconds

vars == <<cut, config, vH, gH, vbed, vh, gh, vMask, gMask, currentSeaLevel,
          dt, vel, acab, shelfbmassflux, vbasalMeltRate,
          vdHdt, gdHdtav, dvoldt, gicecount, vtaudx, vtaudy,
          pc, errAt, last, pre, nsteps, surface, ocean, one_year>>

\* --------------------------------------------------- domain decomposition
\* grid.xs, grid.xm of process w (grid.ys = 0, grid.ym = My for both)
xs(w) == IF w = 0 THEN 0 ELSE cut
xm(w) == IF w = 0 THEN cut ELSE Mx - cut
Owned(w) == {c \in Cell : xs(w) <= c[1] /\ c[1] < xs(w) + xm(w)}
Owner(c) == IF c[1] < cut THEN 0 ELSE 1

\* the owned cells of process w in the order of the double loop
\*   for i = xs .. xs+xm-1, for j = ys .. ys+ym-1
LoopOrder(w) ==
  [k \in 1..(xm(w) * My) |-> <<xs(w) + ((k-1) \div My), (k-1) % My>>]

\* a[i][j] in the local array of process w: an owned value for an owned
\* index, the ghost copy (of the periodic image) otherwise
Local(own, ghost, w, i, j) ==
  IF xs(w) <= i /\ i < xs(w) + xm(w) /\ 0 <= j /\ j < My
  THEN own[<<i, j>>]
  ELSE ghost[w][<<i % Mx, j % My>>]

\* mutant: the ghost communication is left out
GhostComm_Skipped(own, ghost) == ghost

\* beginGhostComm/endGhostComm: every ghost copy := the owner's value
GhostComm(own, ghost) == [w \in Procs |-> own]
\* ghosts that are current
Synced(own) == [w \in Procs |-> own]


\* ------------------------------------------ updateSurfaceElevationAndMask
\* hgrounded = bed + H and hfloating = sea level + (1 - rho/ocean_rho) H,
\* both multiplied by ocean_rho
hgrounded(bed, H) == ocean_rho * (bed + H)
hfloating(sl, H) == ocean_rho * sl + (ocean_rho - ice_rho) * H

\* mutant: the dry simulation marks every cell as grounded ice
DryCell_MarksSheet(m, hg, hf) == [h |-> hg, mask |-> MASK_SHEET]

\* dry simulation: h = hgrounded, the mask is not updated
DryCell(m, hg, hf) == [h |-> hg, mask |-> m]

\* mutant: an OCEAN_AT_TIME_0 cell is handled like any floating cell
OceanCell_AsFloating(m, hg, hf) ==
  IF hg > hf + ocean_rho * hysteresis
  THEN [h |-> hg, mask |-> MASK_SHEET]
  ELSE [h |-> hf, mask |-> m]

\* OCEAN_AT_TIME_0: ignore the bed and treat it like deep ocean; the mask is
\* not changed
OceanCell(m, hg, hf) == [h |-> hf, mask |-> m]

\* mutant: a floating cell that grounds keeps its floating surface elevation
FloatingCell_StaleSurface(m, hg, hf) ==
  IF hg > hf + ocean_rho * hysteresis
  THEN [h |-> hf,
        mask |-> IF config.use_ssa_velocity
                 THEN (IF config.do_plastic_till THEN MASK_DRAGGING_SHEET
                                                 ELSE MASK_UNKNOWN)
                 ELSE MASK_SHEET]
  ELSE [h |-> hf, mask |-> m]

\* mutant: the cell grounds already at the margin, hgrounded >= hfloating + 1
FloatingCell_MarginInclusive(m, hg, hf) ==
  IF hg >= hf + ocean_rho * hysteresis
  THEN [h |-> hg,
        mask |-> IF config.use_ssa_velocity
                 THEN (IF config.do_plastic_till THEN MASK_DRAGGING_SHEET
                                                 ELSE MASK_UNKNOWN)
                 ELSE MASK_SHEET]
  ELSE [h |-> hf, mask |-> m]

\* mutant: h = hgrounded is written in both cases
FloatingCell_GroundedSurface(m, hg, hf) ==
  IF hg > hf + ocean_rho * hysteresis
  THEN [h |-> hg,
        mask |-> IF config.use_ssa_velocity
                 THEN (IF config.do_plastic_till THEN MASK_DRAGGING_SHEET
                                                 ELSE MASK_UNKNOWN)
                 ELSE MASK_SHEET]
  ELSE [h |-> hg, mask |-> m]

\* the branch for a cell whose mask says floating: the new <<h, mask>>
FloatingCell(m, hg, hf) ==
  IF hg > hf + ocean_rho * hysteresis
  THEN [h |-> hg,
        mask |-> IF config.use_ssa_velocity
                 THEN (IF config.do_plastic_till THEN MASK_DRAGGING_SHEET
                                                 ELSE MASK_UNKNOWN)
                 ELSE MASK_SHEET]
  ELSE [h |-> hf, mask |-> m]

\* mutant: the margin of a grounded cell lies above that of a floating one,
\* so a cell that has just grounded does not pass the test of a grounded cell
GroundedCell_MarginAbove(m, hg, hf) ==
  IF hg > hf + 2 * ocean_rho * hysteresis
  THEN [h |-> hg,
        mask |-> IF config.use_ssa_velocity /\ config.do_plastic_till
                 THEN MASK_DRAGGING_SHEET ELSE m]
  ELSE [h |-> hf, mask |-> MASK_FLOATING]

\* mutant: the cell stays grounded already at the margin
GroundedCell_MarginInclusive(m, hg, hf) ==
  IF hg >= hf - ocean_rho * hysteresis
  THEN [h |-> hg,
        mask |-> IF config.use_ssa_velocity /\ config.do_plastic_till
                 THEN MASK_DRAGGING_SHEET ELSE m]
  ELSE [h |-> hf, mask |-> MASK_FLOATING]

\* the branch for a cell whose mask says grounded: the new <<h, mask>>
GroundedCell(m, hg, hf) ==
  IF hg > hf - ocean_rho * hysteresis
  THEN [h |-> hg,
        mask |-> IF config.use_ssa_velocity /\ config.do_plastic_till
                 THEN MASK_DRAGGING_SHEET ELSE m]
  ELSE [h |-> hf, mask |-> MASK_FLOATING]

\* the sum of PismModMask over the box-stencil neighbours, read from the
\* local array mask[][] of process w while the sweep is in progress
neighmasksum(mask, w, i, j) ==
    PismModMask(Local(mask, gMask, w, i-1, j+1))
  + PismModMask(Local(mask, gMask, w, i,   j+1))
  + PismModMask(Local(mask, gMask, w, i+1, j+1))
  + PismModMask(Local(mask, gMask, w, i-1, j))
  + PismModMask(Local(mask, gMask, w, i+1, j))
  + PismModMask(Local(mask, gMask, w, i-1, j-1))
  + PismModMask(Local(mask, gMask, w, i,   j-1))
  + PismModMask(Local(mask, gMask, w, i+1, j-1))

\* mutant: the threshold allows two DRAGGING_SHEET neighbours
VoteByNeighbors_TwoDragging(sum) ==
  IF sum <= 6 * MASK_SHEET + 2 * MASK_DRAGGING_SHEET
  THEN MASK_SHEET ELSE MASK_DRAGGING_SHEET

\* vote-by-neighbours: the threshold 7*MASK_SHEET + MASK_DRAGGING_SHEET + 0.1
VoteByNeighbors(sum) ==
  IF sum <= 7 * MASK_SHEET + MASK_DRAGGING_SHEET
  THEN MASK_SHEET ELSE MASK_DRAGGING_SHEET

\* mutant: the vote is left out
ResolveUnknown_Skipped(m, mask, w, i, j) == m

\* the mask of a non-dry, non-OCEAN0 cell after the vote
ResolveUnknown(m, mask, w, i, j) ==
  IF m = MASK_UNKNOWN THEN VoteByNeighbors(neighmasksum(mask, w, i, j)) ELSE m

\* mutant: the check of the thickness is left out
ThicknessIsNegative_Unchecked(H) == FALSE

\* the check "vH(i,j) < 0" at the head of the loop body
ThicknessIsNegative(H) == H < 0

\* the body of the double loop for cell c of process w; st = [h, mask, err]
\* holds the arrays h[][], mask[][] as written so far and the cell at which
\* SETERRQ2 was raised (err = {} while none was)
UpdateCell(w, c, st, sl) ==
  LET hg == hgrounded(vbed[c], vH[c])
      hf == hfloating(sl, vH[c])
      m  == st.mask[c]
      r  == IF config.is_dry_simulation THEN DryCell(m, hg, hf)
            ELSE IF m = MASK_OCEAN_AT_TIME_0 THEN OceanCell(m, hg, hf)
            ELSE IF is_floating(m) THEN FloatingCell(m, hg, hf)
            ELSE GroundedCell(m, hg, hf)
      m1 == [st.mask EXCEPT ![c] = r.mask]
  IN  IF ThicknessIsNegative(vH[c]) THEN [st EXCEPT !.err = {c}]
      ELSE IF config.is_dry_simulation \/ m = MASK_OCEAN_AT_TIME_0
      THEN [st EXCEPT !.h[c] = r.h, !.mask = m1]
      ELSE [st EXCEPT !.h[c] = r.h,
                      !.mask = [m1 EXCEPT ![c] =
                                  ResolveUnknown(r.mask, m1, w, c[1], c[2])]]

\* mutant: the thickness of all cells is checked before any cell is written
RECURSIVE UpdateSweep_ChecksFirst(_, _, _, _)
UpdateSweep_ChecksFirst(w, cells, st, sl) ==
  IF cells = << >> \/ st.err # {} THEN st
  ELSE IF \E k \in 1..Len(cells) : ThicknessIsNegative(vH[cells[k]])
  THEN [st EXCEPT !.err =
          {cells[CHOOSE k \in 1..Len(cells) :
                   /\ ThicknessIsNegative(vH[cells[k]])
                   /\ \A l \in 1..(k-1) : ~ThicknessIsNegative(vH[cells[l]])]}]
  ELSE UpdateSweep_ChecksFirst(w, Tail(cells),
                               UpdateCell(w, Head(cells), st, sl), sl)

\* the double loop of process w over the cells in order; it returns at the
\* first cell with negative thickness
RECURSIVE UpdateSweep(_, _, _, _)
UpdateSweep(w, cells, st, sl) ==
  IF cells = << >> \/ st.err # {} THEN st
  ELSE UpdateSweep(w, Tail(cells), UpdateCell(w, Head(cells), st, sl), sl)

\* both processes: each writes its owned cells only and reads the others
\* from its ghosts, so the two loops can be evaluated one after the other
UpdateAll(sl) ==
  LET r0 == UpdateSweep(0, LoopOrder(0), [h |-> vh, mask |-> vMask, err |-> {}], sl)
      r1 == UpdateSweep(1, LoopOrder(1), [r0 EXCEPT !.err = {}], sl)
  IN  [h |-> r1.h, mask |-> r1.mask, err |-> r0.err \cup r1.err]

\* the fields as they are on entry of a procedure
Snapshot == [H |-> vH, gH |-> gH, h |-> vh, mask |-> vMask]


\* --------------------------------------------------- massContExplicitStep
\* grid spacing, in grid spacings
dx == 1
dy == 1

\* an input field (velocity, mass balance, bed) at local index (i,j): its
\* ghosts are those of a field that was communicated after it was computed
At(f, i, j) == f[<<i % Mx, j % My>>]

\* 2 * f(v) with f(v) = 1 - (2/pi) atan(inC_fofv * (u^2 + v^2)), in velocity
\* units that make inC_fofv = 1: atan(0) = 0 and atan(1) = pi/4
fofv2(u, v) == IF u * u + v * v = 0 THEN 2 ELSE 1

\* 4 * (thickness averaged onto the staggered grid) between (i,j) and (k,l):
\*   0.5 * (fv * H(i,j) + fv' * H(k,l))  if do_superpose and DRAGGING_SHEET,
\*   0.5 * (H(i,j) + H(k,l))             otherwise.
\* Hs is the array the stencil reads: vH, with the ghosts gH.
StagH4(Hs, w, m, v, i, j, k, l) ==
  IF config.do_superpose /\ m = MASK_DRAGGING_SHEET
  THEN fofv2(At(v.ubarssa, i, j), At(v.vbarssa, i, j)) * Local(Hs, gH, w, i, j)
     + fofv2(At(v.ubarssa, k, l), At(v.vbarssa, k, l)) * Local(Hs, gH, w, k, l)
  ELSE 2 * Local(Hs, gH, w, i, j) + 2 * Local(Hs, gH, w, k, l)

\* 4 * Div(Q) of the SIA part on the staggered grid
divQSIA4(Hs, w, m, v, i, j) ==
  IF config.computeSIAVelocities
  THEN (At(v.uvbar0, i, j)   * StagH4(Hs, w, m, v, i, j, i+1, j)
      - At(v.uvbar0, i-1, j) * StagH4(Hs, w, m, v, i, j, i-1, j)) \div dx
     + (At(v.uvbar1, i, j)   * StagH4(Hs, w, m, v, i, j, i, j+1)
      - At(v.uvbar1, i, j-1) * StagH4(Hs, w, m, v, i, j, i, j-1)) \div dy
  ELSE 0

\* mutant: the difference is taken on the downwind side
UpwindAdvection_Downwind(Hs, w, v, i, j) ==
    (At(v.ub, i, j) * (IF At(v.ub, i, j) < 0
                       THEN Local(Hs, gH, w, i, j) - Local(Hs, gH, w, i-1, j)
                       ELSE Local(Hs, gH, w, i+1, j) - Local(Hs, gH, w, i, j)))
      \div dx
  + (At(v.vb, i, j) * (IF At(v.vb, i, j) < 0
                       THEN Local(Hs, gH, w, i, j) - Local(Hs, gH, w, i, j-1)
                       ELSE Local(Hs, gH, w, i, j+1) - Local(Hs, gH, w, i, j)))
      \div dy

\* v . grad H of the basal sliding part, by first-order upwinding
UpwindAdvection(Hs, w, v, i, j) ==
    (At(v.ub, i, j) * (IF At(v.ub, i, j) < 0
                       THEN Local(Hs, gH, w, i+1, j) - Local(Hs, gH, w, i, j)
                       ELSE Local(Hs, gH, w, i, j) - Local(Hs, gH, w, i-1, j)))
      \div dx
  + (At(v.vb, i, j) * (IF At(v.vb, i, j) < 0
                       THEN Local(Hs, gH, w, i, j+1) - Local(Hs, gH, w, i, j)
                       ELSE Local(Hs, gH, w, i, j) - Local(Hs, gH, w, i, j-1)))
      \div dy

\* (Div v) H of the basal sliding part, centered
Dilation(Hs, w, v, i, j) ==
  Local(Hs, gH, w, i, j) * ( (At(v.ub, i+1, j) - At(v.ub, i-1, j)) \div (2 * dx)
                           + (At(v.vb, i, j+1) - At(v.vb, i, j-1)) \div (2 * dy) )

\* 4 * divQ of cell (i,j)
divQ4(Hs, w, m, v, i, j) ==
    divQSIA4(Hs, w, m, v, i, j)
  + 4 * UpwindAdvection(Hs, w, v, i, j)
  + 4 * Dilation(Hs, w, v, i, j)

\* mutant: the shelf base mass flux is subtracted at grounded cells too
BasalLoss_ShelfFluxEverywhere(m, sbmf, bmr, tstep) ==
  IF config.include_bmr_in_continuity THEN sbmf * tstep ELSE 0

\* mutant: the basal mass balance is subtracted whatever the configuration
BasalLoss_Always(m, sbmf, bmr, tstep) ==
  IF is_floating(m) THEN sbmf * tstep ELSE bmr * tstep

\* S * dt, the basal mass balance subtracted when include_bmr_in_continuity
BasalLoss(m, sbmf, bmr, tstep) ==
  IF config.include_bmr_in_continuity
  THEN (IF is_floating(m) THEN sbmf * tstep ELSE bmr * tstep)
  ELSE 0

\* mutant: the free boundary rule is left out
FreeBoundary_Off(H) == H

\* free boundary rule: negative thickness becomes zero
FreeBoundary(H) == IF H < 0 THEN 0 ELSE H

\* mutant: floating_ice_killed is not looked at
Calving_OceanOnly(m, H) ==
  IF config.ocean_kill /\ m = MASK_OCEAN_AT_TIME_0 THEN 0 ELSE H

\* -ocean_kill and -float_kill: calving at the original calving front and at
\* the grounding line
Calving(m, H) ==
  IF config.ocean_kill /\ m = MASK_OCEAN_AT_TIME_0 THEN 0
  ELSE IF config.floating_ice_killed /\ is_floating(m) THEN 0
  ELSE H

\* mutant: the free boundary rule is applied before the basal loss is taken
NewThickness_ClampsBeforeBasalLoss(Hs, w, c, Hnew, v, a, sbmf, bmr, tstep) ==
  LET m  == vMask[c]
      H1 == Hnew + ((4 * a[c] - divQ4(Hs, w, m, v, c[1], c[2])) * tstep) \div 4
      H2 == FreeBoundary(H1) - BasalLoss(m, sbmf[c], bmr[c], tstep)
  IN  Calving(m, H2)

\* mutant: the surface mass balance is left out of the step
NewThickness_NoSurfaceBalance(Hs, w, c, Hnew, v, a, sbmf, bmr, tstep) ==
  LET m  == vMask[c]
      H1 == Hnew + ((0 - divQ4(Hs, w, m, v, c[1], c[2])) * tstep) \div 4
      H2 == H1 - BasalLoss(m, sbmf[c], bmr[c], tstep)
  IN  Calving(m, FreeBoundary(H2))

\* vHnew(i,j) after the body of the double loop, from vHnew(i,j) before it
NewThickness(Hs, w, c, Hnew, v, a, sbmf, bmr, tstep) ==
  LET m  == vMask[c]
      H1 == Hnew + ((4 * a[c] - divQ4(Hs, w, m, v, c[1], c[2])) * tstep) \div 4
      H2 == H1 - BasalLoss(m, sbmf[c], bmr[c], tstep)
  IN  Calving(m, FreeBoundary(H2))

\* mutant: the step is done in place, vHnew being the array that is read
StencilSource_InPlace(Hnew) == Hnew

\* the array that vH(i,j), vH(i+1,j), ... read while vHnew is being written:
\* the old thickness, vHnew being a separate work vector
StencilSource(Hnew) == vH

\* mutant: a cell counts as ice-covered by its new thickness
MassContCell_CountsNewIce(w, c, st, v, a, sbmf, bmr, tstep) ==
  LET Hc == NewThickness(StencilSource(st.Hnew), w, c, st.Hnew[c],
                         v, a, sbmf, bmr, tstep)
  IN  [Hnew |-> [st.Hnew EXCEPT ![c] = Hc],
       icecount |-> IF Hc > 0 THEN st.icecount + 1 ELSE st.icecount]

\* the body of the double loop; st = [Hnew, icecount]
MassContCell(w, c, st, v, a, sbmf, bmr, tstep) ==
  [Hnew |-> [st.Hnew EXCEPT ![c] =
               NewThickness(StencilSource(st.Hnew), w, c, st.Hnew[c],
                            v, a, sbmf, bmr, tstep)],
   icecount |-> IF vH[c] > 0 THEN st.icecount + 1 ELSE st.icecount]

RECURSIVE MassContSweep(_, _, _, _, _, _, _, _)
MassContSweep(w, cells, st, v, a, sbmf, bmr, tstep) ==
  IF cells = << >> THEN st
  ELSE MassContSweep(w, Tail(cells),
                     MassContCell(w, Head(cells), st, v, a, sbmf, bmr, tstep),
                     v, a, sbmf, bmr, tstep)

\* mutant: vHnew is not filled before the loop
CopyOfH_Missing == [c \in Cell |-> 0]

\* vHnew = vWork2d[0], filled by vH.copy_to(vHnew)
CopyOfH == vH

\* the loops of both processes and PetscGlobalSum of icecount
MassContAll(v, a, sbmf, bmr, tstep) ==
  LET r0 == MassContSweep(0, LoopOrder(0), [Hnew |-> CopyOfH, icecount |-> 0],
                          v, a, sbmf, bmr, tstep)
      r1 == MassContSweep(1, LoopOrder(1), [Hnew |-> r0.Hnew, icecount |-> 0],
                          v, a, sbmf, bmr, tstep)
  IN  [Hnew |-> r1.Hnew, gicecount |-> r0.icecount + r1.icecount]

RECURSIVE SumOver(_, _)
SumOver(f, S) ==
  IF S = {} THEN 0
  ELSE LET c == CHOOSE x \in S : TRUE IN f[c] + SumOver(f, S \ {c})

\* vdHdt = (vHnew - vH) / dt, as a fraction
dHdt(Hnew, tstep) == [c \in Cell |-> [n |-> Hnew[c] - vH[c], d |-> tstep]]

\* the undefined marker, written as the fraction 0/0
GSL_NAN == [n |-> 0, d |-> 0]

\* vdHdt.mask_by(vHnew, GSL_NAN): undefined where there is no ice
mask_by(f, M) == [c \in Cell |-> IF M[c] <= 0 THEN GSL_NAN ELSE f[c]]

\* mutant: the rates are summed after the masking, without the masked cells
DomainSum_AfterMasking(rate, Hnew) ==
  SumOver([c \in Cell |-> mask_by(rate, Hnew)[c].n], Cell)

\* vdHdt.sum(gdHdtav), called before vdHdt.mask_by: the numerators of the
\* rates of all cells of all processes (the denominator dt is common)
DomainSum(rate, Hnew) == SumOver([c \in Cell |-> rate[c].n], Cell)


\* --------------------------------------------------- computeDrivingStress
\* A driving stress component is a record: form "zero" with value 0, or
\* -pressure * h_x with pressure = rho g H (g left out) and h_x given by
\*   form "eta":  factor(myH) * (He^etapow - Hw^etapow) / den + bedn / den
\*   form "diff": n / den      (a difference quotient of h, h being stored
\*                              multiplied by ocean_rho)
ZeroStress == [form |-> "zero", pressure |-> 0, n |-> 0, den |-> 1]

\* IceModelVec2S::diff_x, diff_y: centered difference quotient <<n, den>>
diff_x(own, ghost, w, i, j) ==
  <<Local(own, ghost, w, i+1, j) - Local(own, ghost, w, i-1, j), 2 * dx>>
diff_y(own, ghost, w, i, j) ==
  <<Local(own, ghost, w, i, j+1) - Local(own, ghost, w, i, j-1), 2 * dy>>

\* IceModelVec2S::diff_x_p, diff_y_p: one-sided at the edge of the domain
diff_x_p(own, ghost, w, i, j) ==
  IF i = 0 THEN <<Local(own, ghost, w, i+1, j) - Local(own, ghost, w, i, j), dx>>
  ELSE IF i = Mx - 1
       THEN <<Local(own, ghost, w, i, j) - Local(own, ghost, w, i-1, j), dx>>
       ELSE diff_x(own, ghost, w, i, j)
diff_y_p(own, ghost, w, i, j) ==
  IF j = 0 THEN <<Local(own, ghost, w, i, j+1) - Local(own, ghost, w, i, j), dy>>
  ELSE IF j = My - 1
       THEN <<Local(own, ghost, w, i, j) - Local(own, ghost, w, i, j-1), dy>>
       ELSE diff_y(own, ghost, w, i, j)

\* mutant: the thickness floor of the eta transformation is applied to the
\* pressure as well
Pressure_OfFlooredThickness(H) ==
  ice_rho * (IF H < minThickEtaTransform THEN minThickEtaTransform ELSE H)

\* pressure = ice->rho * standard_gravity * vH(i,j), without the factor g
Pressure(H) == ice_rho * H

\* mutant: the transformation takes the thickness as it is
EtaThickness_Unfloored(H) == H

\* the thickness used in eta = myH^etapow
EtaThickness(H) == IF H < minThickEtaTransform THEN minThickEtaTransform ELSE H

\* the x (dir = 1) or y (dir = 2) component at cell (i,j) of process w
DrivingStressAt(w, i, j, dir) ==
  LET H  == Local(vH, gH, w, i, j)
      pressure == Pressure(H)
      di == IF dir = 1 THEN 1 ELSE 0
      dj == IF dir = 1 THEN 0 ELSE 1
  IN  IF pressure <= 0 THEN ZeroStress
      ELSE IF is_grounded(vMask[<<i, j>>]) /\ config.transformForSurfaceGradient
      THEN [form |-> "eta", pressure |-> pressure,
            myH |-> EtaThickness(H),
            Hp |-> Local(vH, gH, w, i+di, j+dj),
            Hm |-> Local(vH, gH, w, i-di, j-dj),
            bedn |-> At(vbed, i+di, j+dj) - At(vbed, i-di, j-dj),
            den |-> 2 * (IF dir = 1 THEN dx ELSE dy)]
      ELSE LET q == IF config.compute_surf_grad_inward_ssa
                    THEN (IF dir = 1 THEN diff_x_p(vh, gh, w, i, j)
                                     ELSE diff_y_p(vh, gh, w, i, j))
                    ELSE (IF dir = 1 THEN diff_x(vh, gh, w, i, j)
                                     ELSE diff_y(vh, gh, w, i, j))
           IN  [form |-> "diff", pressure |-> pressure, n |-> q[1], den |-> q[2]]

\* the double loops of both processes: every owned cell is written once
DrivingStressField(dir) ==
  [c \in Cell |-> DrivingStressAt(Owner(c), c[1], c[2], dir)]


\* ------------------------------------------------------------ input sets
\* two cells that vary on their own; all other cells share one value
cellA == <<0, 1>>
cellB == <<1, 1>>
Field(a, b, bg) == [c \in Cell |-> IF c = cellA THEN a ELSE IF c = cellB THEN b ELSE bg]
Uniform(x) == [c \in Cell |-> x]
\* a field that differs in column 1 (a) or in row 1 (b) from the rest (bg)
ColField(a, bg) == [c \in Cell |-> IF c[1] = 1 THEN a ELSE bg]
RowField(b, bg) == [c \in Cell |-> IF c[2] = 1 THEN b ELSE bg]

\* the number of mass continuity steps of a run
MaxSteps == 2

\* process 0 owns columns 0..cut-1; both processes own at least one column
Cuts == 1..(Mx - 1)

MaskVals == {MASK_SHEET, MASK_DRAGGING_SHEET, MASK_FLOATING, MASK_OCEAN_AT_TIME_0}
\* the mask values an input file can hold; the mask is read as it is
EntryMasks == MaskVals \cup {MASK_UNKNOWN}
\* thickness in cm: none, 50 m; negative thickness comes from a bad input file
ThickVals == {0, 5000}
BadThickVals == {-100}
\* bed elevation in cm: 0.92 * 50 m below sea level 0, and at sea level 0
BedVals == {-4600, 0}
SeaLevels == {-150, -100, -50, 100}

Flags == {"is_dry_simulation", "do_plastic_till", "use_ssa_velocity",
          "ocean_kill", "floating_ice_killed", "include_bmr_in_continuity",
          "do_superpose", "computeSIAVelocities",
          "transformForSurfaceGradient", "compute_surf_grad_inward_ssa"}
\* the configurations in which exactly the flags of a subset of S are set
ConfigsOver(S) == {[f \in Flags |-> f \in on] : on \in SUBSET S}

NoFlow == [ub |-> Uniform(0), vb |-> Uniform(0), uvbar0 |-> Uniform(0),
           uvbar1 |-> Uniform(0), ubarssa |-> Uniform(0), vbarssa |-> Uniform(0)]

\* the state after the input file has been read: ghosts are current, nothing
\* has been computed yet.  Geom is a set of <<H at cellA, H at cellB, H
\* elsewhere, mask at cellA, mask at cellB, mask elsewhere>>.
InitFields(Cts, Cfgs, Seas, Geom, Beds, Flows, Acabs, Basal, Dts) ==
  /\ cut \in Cts
  /\ config \in Cfgs
  /\ currentSeaLevel \in Seas
  /\ \E g \in Geom : /\ vH = Field(g[1], g[2], g[3])
                     /\ vMask = Field(g[4], g[5], g[6])
  /\ gH = Synced(vH)
  /\ \E bg \in Beds : vbed = Uniform(bg)
  /\ gMask = Synced(vMask)
  /\ vh = [c \in Cell |-> hgrounded(vbed[c], vH[c])]
  /\ gh = Synced(vh)
  /\ vel \in Flows
  /\ \E a \in Acabs : acab = Uniform(a)
  /\ \E b \in Basal : /\ shelfbmassflux = Uniform(b[1])
                      /\ vbasalMeltRate = Uniform(b[2])
  /\ dt \in Dts
  /\ vdHdt = Uniform([n |-> 0, d |-> 1])
  /\ gdHdtav = [n |-> 0, d |-> 1]
  /\ dvoldt = [n |-> 0, d |-> 1]
  /\ gicecount = 0
  /\ vtaudx = Uniform(ZeroStress)
  /\ vtaudy = Uniform(ZeroStress)
  /\ pc = "run"
  /\ errAt = {}
  /\ last = "init"
  /\ pre = Snapshot
  /\ nsteps = 0

\* a boundary model that reports (restrict, max_dt) and was not updated yet
Coupler(restrict, max_dt) ==
  [restrict |-> restrict, max_dt |-> max_dt, updates |-> << >>]

\* the runs of the three procedures: boundary models without a restriction
\* and a year of 365 days
InitWith(Cts, Cfgs, Seas, Geom, Beds, Flows, Acabs, Basal, Dts) ==
  /\ InitFields(Cts, Cfgs, Seas, Geom, Beds, Flows, Acabs, Basal, Dts)
  /\ surface = Coupler(FALSE, 0)
  /\ ocean = Coupler(FALSE, 0)
  /\ one_year = 31536000

\* ---------------------------------------------------------------- actions
\* IceModel::updateSurfaceElevationAndMask()
updateSurfaceElevationAndMask ==
  /\ pc = "run"
  /\ \E r \in {UpdateAll(currentSeaLevel)} :
         /\ vh' = r.h
         /\ vMask' = r.mask
         /\ IF r.err # {}
            THEN /\ pc' = "error"
                 /\ errAt' = r.err
                 /\ UNCHANGED <<gh, gMask>>
            ELSE /\ gh' = GhostComm(r.h, gh)
                 /\ gMask' = GhostComm(r.mask, gMask)
                 /\ UNCHANGED <<pc, errAt>>
  /\ last' = "update"
  /\ pre' = Snapshot
  /\ UNCHANGED <<cut, config, vH, gH, vbed, currentSeaLevel, dt, vel, acab,
                 shelfbmassflux, vbasalMeltRate, vdHdt, gdHdtav, dvoldt,
                 gicecount, vtaudx, vtaudy, nsteps, surface, ocean,
                 one_year>>

\* mutant: the step also moves the surface with the new thickness,
\* h = bed + H, which is the work of updateSurfaceElevationAndMask
massContExplicitStep_MovesSurface ==
  /\ pc = "run"
  /\ last # "init"
  /\ nsteps < MaxSteps
  /\ \E r \in {MassContAll(vel, acab, shelfbmassflux, vbasalMeltRate, dt)} :
     \E rate \in {dHdt(r.Hnew, dt)} :
     \E total \in {DomainSum(rate, r.Hnew)} :
         /\ gicecount' = r.gicecount
         /\ dvoldt' = [n |-> total * dx * dy, d |-> dt]
         /\ gdHdtav' = [n |-> total, d |-> dt * r.gicecount]
         /\ vdHdt' = mask_by(rate, r.Hnew)
         /\ vH' = r.Hnew
         /\ gH' = GhostComm(r.Hnew, gH)
         /\ vh' = [c \in Cell |-> hgrounded(vbed[c], r.Hnew[c])]
  /\ last' = "massCont"
  /\ pre' = Snapshot
  /\ nsteps' = nsteps + 1
  /\ UNCHANGED <<cut, config, vbed, gh, vMask, gMask, currentSeaLevel, dt,
                 vel, acab, shelfbmassflux, vbasalMeltRate, vtaudx, vtaudy,
                 pc, errAt, surface, ocean, one_year>>

\* IceModel::massContExplicitStep(); model_state_setup() has called
\* updateSurfaceElevationAndMask() before the first step
massContExplicitStep ==
  /\ pc = "run"
  /\ last # "init"
  /\ nsteps < MaxSteps
  /\ \E r \in {MassContAll(vel, acab, shelfbmassflux, vbasalMeltRate, dt)} :
     \E rate \in {dHdt(r.Hnew, dt)} :
     \E total \in {DomainSum(rate, r.Hnew)} :
         /\ gicecount' = r.gicecount
         /\ dvoldt' = [n |-> total * dx * dy, d |-> dt]
         /\ gdHdtav' = [n |-> total, d |-> dt * r.gicecount]
         /\ vdHdt' = mask_by(rate, r.Hnew)
         /\ vH' = r.Hnew
         /\ gH' = GhostComm(r.Hnew, gH)
  /\ last' = "massCont"
  /\ pre' = Snapshot
  /\ nsteps' = nsteps + 1
  /\ UNCHANGED <<cut, config, vbed, vh, gh, vMask, gMask, currentSeaLevel, dt,
                 vel, acab, shelfbmassflux, vbasalMeltRate, vtaudx, vtaudy,
                 pc, errAt, surface, ocean, one_year>>

\* IceModel::computeDrivingStress(vtaudx, vtaudy)
computeDrivingStress ==
  /\ pc = "run"
  /\ last # "init"
  /\ vtaudx' = DrivingStressField(1)
  /\ vtaudy' = DrivingStressField(2)
  /\ last' = "stress"
  /\ pre' = Snapshot
  /\ UNCHANGED <<cut, config, vH, gH, vbed, vh, gh, vMask, gMask,
                 currentSeaLevel, dt, vel, acab, shelfbmassflux,
                 vbasalMeltRate, vdHdt, gdHdtav, dvoldt, gicecount, pc, errAt,
                 nsteps, surface, ocean, one_year>>

\* surface->max_timestep(current_time, apcc_dt, restrict_dt) and the same
\* call of ocean: the step length and the flag that the model m hands back
max_timestep(m) == [dt |-> m.max_dt, restrict_dt |-> m.restrict]

\* mutant: the step lengths of both models are taken whatever their flags
dt_restrictions_IgnoringFlags(yr, s, o) ==
  {yr, max_timestep(s).dt, max_timestep(o).dt}

\* the vector dt_restrictions: the year, and the step length of each model
\* whose call set restrict_dt
dt_restrictions(yr, s, o) ==
  {yr}
    \cup (IF max_timestep(s).restrict_dt THEN {max_timestep(s).dt} ELSE {})
    \cup (IF max_timestep(o).restrict_dt THEN {max_timestep(o).dt} ELSE {})

\* *std::min_element(...)
min_element(S) == CHOOSE x \in S : \A y \in S : x <= y

\* "Do not take time-steps shorter than 1 second"
AtLeastOneSecond(d) == IF d < 1 THEN 1 ELSE d

\* max_dt as passed to the two calls of update
CouplerStep(yr, s, o) ==
  LET r == dt_restrictions(yr, s, o)
  IN  AtLeastOneSecond(IF r # {} THEN min_element(r) ELSE 0)

\* IceModel::init_step_couplers(), called once while the state is set up
init_step_couplers ==
  /\ pc = "run"
  /\ surface.updates = << >> /\ ocean.updates = << >>
  /\ \E max_dt \in {CouplerStep(one_year, surface, ocean)} :
         /\ surface' = [surface EXCEPT !.updates = Append(@, max_dt)]
         /\ ocean' = [ocean EXCEPT !.updates = Append(@, max_dt)]
  /\ UNCHANGED <<cut, config, vH, gH, vbed, vh, gh, vMask, gMask,
                 currentSeaLevel, dt, vel, acab, shelfbmassflux,
                 vbasalMeltRate, vdHdt, gdHdtav, dvoldt, gicecount, vtaudx,
                 vtaudy, pc, errAt, last, pre, nsteps, one_year>>

\* ---------------------------------------- the consistency update on its own
\* every thickness at cellA, every mask of an input file at the two cells,
\* 50 m of ice elsewhere
GeomAny ==
  (ThickVals \cup BadThickVals) \X {5000} \X {5000}
    \X EntryMasks \X EntryMasks \X (MaskVals \ {MASK_OCEAN_AT_TIME_0})
GeomConfigs ==
  ConfigsOver({"do_plastic_till", "use_ssa_velocity"})
    \cup ConfigsOver({"is_dry_simulation"})
\* a shelf of 50 m of ice over a bed 500 m below sea level 0
GeomShelf ==
  {<<5000, 5000, 5000, MASK_FLOATING, m, MASK_FLOATING>> : m \in MaskVals}
InitGeom ==
  \/ InitWith(Cuts, GeomConfigs, SeaLevels, GeomAny, BedVals, {NoFlow}, {0}, {<<0, 0>>}, {1})
  \/ InitWith(Cuts, GeomConfigs, {0}, GeomShelf, {-50000}, {NoFlow}, {0}, {<<0, 0>>}, {1})
NextGeom == updateSurfaceElevationAndMask
SpecGeom == InitGeom /\ [][NextGeom]_vars


\* ------------------------------ mass continuity steps between the updates
\* surface mass balance in cm per time unit, <<shelf base mass flux, basal
\* melt rate>> in cm per time unit, and time steps
AcabVals == {-6000, 0, 1}
BasalVals == {<<0, 0>>, <<300, 70>>}
DtVals == {1, 2}

\* sliding velocities are even and SIA velocities multiples of 4 (in grid
\* spacings per time unit), which keeps every quotient of the step exact
SlidingFlows ==
  {[NoFlow EXCEPT !.ub = u, !.vb = v] :
     u \in {Uniform(0), ColField(2, 0), ColField(-2, 2)},
     v \in {Uniform(0), RowField(-2, 0)}}
SIAFlows ==
  {[NoFlow EXCEPT !.uvbar0 = u, !.uvbar1 = v, !.ubarssa = f] :
     u \in {Uniform(0), ColField(4, 0), ColField(-4, 4)},
     v \in {Uniform(0), RowField(4, 0)},
     f \in {Uniform(0), ColField(1, 0)}}
MixedFlow ==
  [ub |-> ColField(2, 0), vb |-> RowField(0, 2), uvbar0 |-> ColField(4, -4),
   uvbar1 |-> RowField(-4, 0), ubarssa |-> Uniform(0), vbarssa |-> RowField(1, 0)]

\* no flow: every mask at cellA and elsewhere, with and without ice at cellA
GeomBalance ==
  {<<a, 5000, 5000, m, bg, bg>> : a \in ThickVals, m \in MaskVals, bg \in MaskVals}
InitBalance ==
  InitWith({2},
           ConfigsOver({"ocean_kill", "floating_ice_killed", "include_bmr_in_continuity"}),
           {0}, GeomBalance, {-4600}, {NoFlow}, AcabVals, BasalVals, DtVals)

\* flow over grounded ice of varying thickness
GeomFlow ==
  {<<a, b, 5000, bg, bg, bg>> :
     a \in {0, 2000, 5000}, b \in {2000, 5000},
     bg \in {MASK_SHEET, MASK_DRAGGING_SHEET}}
InitFlow ==
  InitWith(Cuts, ConfigsOver({"do_superpose", "computeSIAVelocities"}),
           {0}, GeomFlow, {0}, SlidingFlows \cup SIAFlows \cup {MixedFlow},
           {0}, {<<0, 0>>}, DtVals)

InitMass == InitBalance \/ InitFlow
NextMass == updateSurfaceElevationAndMask \/ massContExplicitStep
SpecMass == InitMass /\ [][NextMass]_vars
\* the two kinds of runs on their own: mass balance without flow, and flow
SpecBalance == InitBalance /\ [][NextMass]_vars
SpecFlow == InitFlow /\ [][NextMass]_vars

\* ------------------------------------------ the neighbour vote on its own
\* ice of 50 m (none at cellA) on a bed at 0 with the sea 0.5 m below: every
\* FLOATING cell with ice grounds; every mask a run leaves behind at the two
\* cells and elsewhere
GeomVote ==
  {<<a, 5000, 5000, mA, mB, bg>> :
     a \in ThickVals, mA \in MaskVals, mB \in MaskVals, bg \in MaskVals}
InitVote ==
  InitWith(Cuts, ConfigsOver({"use_ssa_velocity", "do_plastic_till"}), {-50},
           GeomVote, {0}, {NoFlow}, {0}, {<<0, 0>>}, {1})
SpecVote == InitVote /\ [][NextGeom]_vars
\* the same fields, with steps of mass continuity between the updates
SpecDecomp == InitVote /\ [][NextMass]_vars

\* ------------------------------------- a slab of grounded ice that thickens
\* flat bed at 0, sea level 0, 100 m of ice everywhere, mask SHEET, no flow,
\* surface mass balance 0.01 m per time unit, dt = 1, no basal melt; the
\* options that are not part of the scenario vary, the sliding law with
\* plastic till (which turns grounded cells into DRAGGING_SHEET) is not used
SlabConfigs ==
  ConfigsOver({"is_dry_simulation", "use_ssa_velocity", "ocean_kill",
               "floating_ice_killed", "include_bmr_in_continuity",
               "computeSIAVelocities"})
InitSlab ==
  InitWith(Cuts, SlabConfigs, {0},
           {<<10000, 10000, 10000, MASK_SHEET, MASK_SHEET, MASK_SHEET>>},
           {0}, {NoFlow}, {1}, {<<0, 0>>}, {1})
SpecSlab == InitSlab /\ [][NextMass]_vars

\* ------------------------------------ the driving stress with its options
\* a bed 2 m below the sea, so that 3 m of ice keep the mask they come
\* with (floating or grounded) and 50 m ground, or a bed 45.5 m below it,
\* where 50 m keep their mask and 3 m float; both gradient options vary
GeomStress ==
  {<<a, b, 5000, mA, mB, MASK_SHEET>> :
     a \in {0, 300, 5000}, b \in {300, 5000},
     mA \in {MASK_SHEET, MASK_FLOATING}, mB \in {MASK_SHEET, MASK_FLOATING}}
InitStress ==
  InitWith(Cuts,
           ConfigsOver({"transformForSurfaceGradient",
                        "compute_surf_grad_inward_ssa"}),
           {-50}, GeomStress, {-250, -4600}, {NoFlow}, {0}, {<<0, 0>>}, {1})
NextStress == updateSurfaceElevationAndMask \/ computeDrivingStress
SpecStress == InitStress /\ [][NextStress]_vars

\* ------------------------------------ the first step of the boundary models
\* step lengths in seconds that a boundary model can hand back: nothing,
\* one second, a day, a year of 365 days, more than a year; years of 365
\* and of 366 days
StepReports == {0, 1, 86400, 31536000, 40000000}
YearLengths == {31536000, 31622400}
InitCouplers ==
  /\ InitFields({1}, ConfigsOver({}), {0},
                {<<5000, 5000, 5000, MASK_SHEET, MASK_SHEET, MASK_SHEET>>},
                {0}, {NoFlow}, {0}, {<<0, 0>>}, {1})
  /\ \E b \in BOOLEAN, d \in StepReports : surface = Coupler(b, d)
  /\ \E b \in BOOLEAN, d \in StepReports : ocean = Coupler(b, d)
  /\ one_year \in YearLengths
NextCouplers == init_step_couplers
SpecCouplers == InitCouplers /\ [][NextCouplers]_vars

\* --------------------------------------------------- the three procedures
GeomMixed ==
  {<<a, 5000, 5000, m, bg, bg>> :
     a \in ThickVals, m \in MaskVals, bg \in {MASK_SHEET, MASK_FLOATING}}
Init ==
  InitWith(Cuts, ConfigsOver({"is_dry_simulation", "ocean_kill"}),
           {-50, 100}, GeomMixed, BedVals, {NoFlow}, {-6000, 1}, {<<0, 0>>}, {1})
Next ==
  \/ updateSurfaceElevationAndMask
  \/ massContExplicitStep
  \/ computeDrivingStress
Spec == Init /\ [][Next]_vars

\* ------------------------------------------------------------ properties
Max(a, b) == IF a >= b THEN a ELSE b
Returned(name) == last = name /\ pc = "run"
\* flotation heights of cell c for the thickness the last call started from
hgroundedAt(c) == hgrounded(vbed[c], pre.H[c])
hfloatingAt(c) == hfloating(currentSeaLevel, pre.H[c])

\* C2, as stated: after updateSurfaceElevationAndMask has returned, every
\* cell has h >= max(hgrounded, hfloating) - eps, whatever the mask and the
\* configuration (eps taken as large as the hysteresis margin of 1 m).
C2_AsStated ==
  Returned("update") =>
    \A c \in Cell :
      vh[c] >= Max(hgroundedAt(c), hfloatingAt(c)) - ocean_rho * hysteresis

\* C2, amended: the bound holds, with eps = 1 m, when is_dry_simulation is
\* off and for the cells whose mask is not OCEAN_AT_TIME_0; in a dry
\* simulation h = hgrounded, and at an OCEAN_AT_TIME_0 cell h = hfloating.
C2_SurfaceAboveFlotation ==
  Returned("update") =>
    \A c \in Cell :
      /\ config.is_dry_simulation => vh[c] = hgroundedAt(c)
      /\ (~config.is_dry_simulation /\ pre.mask[c] = MASK_OCEAN_AT_TIME_0)
           => vh[c] = hfloatingAt(c)
      /\ (~config.is_dry_simulation /\ pre.mask[c] # MASK_OCEAN_AT_TIME_0)
           => vh[c] >= Max(hgroundedAt(c), hfloatingAt(c)) - ocean_rho * hysteresis

\* a floating cell that stays floating inside the hysteresis margin: its h is
\* below hgrounded
C2_Witness ==
  /\ Returned("update")
  /\ ~config.is_dry_simulation
  /\ \E c \in Cell : /\ pre.mask[c] = MASK_FLOATING
                     /\ vMask[c] = MASK_FLOATING
                     /\ vh[c] < hgroundedAt(c)

\* C3, as stated: after updateSurfaceElevationAndMask has returned no cell
\* has mask UNKNOWN, whether it was set to UNKNOWN during the call or held
\* UNKNOWN on entry, in every configuration.
C3_AsStated ==
  Returned("update") => \A c \in Cell : vMask[c] # MASK_UNKNOWN

\* C3, amended: when is_dry_simulation is off, no cell has mask UNKNOWN after
\* updateSurfaceElevationAndMask has returned: a cell set to UNKNOWN during
\* the call (a floating cell that grounded with use_ssa_velocity and without
\* do_plastic_till) is SHEET or DRAGGING_SHEET, and a cell holding UNKNOWN on
\* entry is SHEET, DRAGGING_SHEET or FLOATING.  In a dry simulation the mask
\* is left as it was on entry.
C3_NoUnknownAfterUpdate ==
  Returned("update") =>
    \A c \in Cell :
      /\ config.is_dry_simulation => vMask[c] = pre.mask[c]
      /\ ~config.is_dry_simulation => vMask[c] \in MaskVals
      /\ ( /\ ~config.is_dry_simulation
           /\ config.use_ssa_velocity /\ ~config.do_plastic_till
           /\ pre.mask[c] = MASK_FLOATING
           /\ hgroundedAt(c) > hfloatingAt(c) + ocean_rho * hysteresis )
         => vMask[c] \in {MASK_SHEET, MASK_DRAGGING_SHEET}
      /\ (~config.is_dry_simulation /\ pre.mask[c] = MASK_UNKNOWN)
         => vMask[c] \in {MASK_SHEET, MASK_DRAGGING_SHEET, MASK_FLOATING}

\* a floating cell that grounded, went through UNKNOWN and was voted SHEET,
\* next to a grounded cell that held UNKNOWN on entry and was voted on
C3_Witness ==
  /\ Returned("update")
  /\ config.use_ssa_velocity /\ ~config.do_plastic_till
  /\ pre.mask[cellA] = MASK_FLOATING
  /\ vMask[cellA] = MASK_SHEET
  /\ hgroundedAt(cellA) > hfloatingAt(cellA) + ocean_rho * hysteresis
  /\ pre.mask[cellB] = MASK_UNKNOWN
  /\ vMask[cellB] \in {MASK_SHEET, MASK_DRAGGING_SHEET}

\* C8: when a cell has negative thickness on entry,
\* updateSurfaceElevationAndMask fails, the error names a cell of negative
\* thickness, and the thickness field is as it was.
C8_NegativeThicknessIsFatal ==
  (last = "update" /\ \E c \in Cell : pre.H[c] < 0) =>
    /\ pc = "error"
    /\ errAt # {}
    /\ \A c \in errAt : pre.H[c] < 0
    /\ vH = pre.H
    /\ gH = pre.gH

C8_Witness ==
  /\ last = "update"
  /\ pc = "error"
  /\ errAt = {cellA}
  /\ vH[cellA] < 0


\* the inputs of the last mass continuity step
NoSliding == vel.ub = Uniform(0) /\ vel.vb = Uniform(0)
NoSIAFlux == vel.uvbar0 = Uniform(0) /\ vel.uvbar1 = Uniform(0)
NoBasalExchange == shelfbmassflux = Uniform(0) /\ vbasalMeltRate = Uniform(0)
\* the cells that calving front truncation sets to zero
Killed(c) ==
  \/ config.ocean_kill /\ pre.mask[c] = MASK_OCEAN_AT_TIME_0
  \/ config.floating_ice_killed /\ is_floating(pre.mask[c])

\* C1: after massContExplicitStep has returned, the thickness of every cell
\* (and every ghost copy of it) is >= 0.
C1_ThicknessNonNegative ==
  Returned("massCont") =>
    \A c \in Cell : vH[c] >= 0 /\ \A w \in Procs : gH[w][c] >= 0

\* a cell whose ice has melted away: the sum is negative and is clamped
C1_Witness ==
  /\ Returned("massCont")
  /\ \E c \in Cell : /\ pre.H[c] > 0
                     /\ ~Killed(c)
                     /\ pre.H[c] + acab[c] * dt < 0
                     /\ vH[c] = 0

\* C4, as stated: with zero sliding velocities, zero SIA fluxes and zero
\* mass balance inputs the step leaves the thickness of every cell unchanged,
\* for every mask and every configuration.
C4_AsStated ==
  (Returned("massCont") /\ NoSliding /\ NoSIAFlux /\ acab = Uniform(0)
     /\ NoBasalExchange)
  => vH = pre.H

\* C4, amended: with zero inputs the step leaves the thickness unchanged at
\* every cell that calving front truncation does not apply to (ocean_kill at
\* OCEAN_AT_TIME_0 cells, floating_ice_killed at floating cells); where it
\* applies the new thickness is zero.
C4_NoFluxConservation ==
  (Returned("massCont") /\ NoSliding /\ NoSIAFlux /\ acab = Uniform(0)
     /\ NoBasalExchange)
  => \A c \in Cell : vH[c] = IF Killed(c) THEN 0 ELSE pre.H[c]

C4_Witness ==
  /\ Returned("massCont")
  /\ NoSliding /\ NoSIAFlux /\ acab = Uniform(0) /\ NoBasalExchange
  /\ config.include_bmr_in_continuity
  /\ \E c \in Cell : ~Killed(c) /\ pre.H[c] > 0 /\ vH[c] = pre.H[c]
  /\ \E c \in Cell : Killed(c) /\ pre.H[c] > 0 /\ vH[c] = 0

\* C5, as stated: with zero velocity and SIA flux fields and a constant
\* surface mass balance m, H' = max(0, H + m dt) at every cell.
C5_AsStated ==
  (Returned("massCont") /\ NoSliding /\ NoSIAFlux)
  => \A c \in Cell : vH[c] = Max(0, pre.H[c] + acab[c] * dt)

\* C5, amended: ... H' = max(0, H + m dt) at every cell that calving front
\* truncation does not apply to, provided the basal mass balance is not
\* included in the continuity equation or is zero.
C5_MassBalanceOnly ==
  (Returned("massCont") /\ NoSliding /\ NoSIAFlux
     /\ (~config.include_bmr_in_continuity \/ NoBasalExchange))
  => \A c \in Cell : ~Killed(c) => vH[c] = Max(0, pre.H[c] + acab[c] * dt)

C5_Witness ==
  /\ Returned("massCont")
  /\ NoSliding /\ NoSIAFlux
  /\ ~config.include_bmr_in_continuity /\ ~NoBasalExchange
  /\ dt = 2
  /\ \E c \in Cell : ~Killed(c) /\ acab[c] = 1 /\ vH[c] = pre.H[c] + 2

\* The step written out for one cell, reading only the thickness pre.H that
\* the step started from, at the cell and at its four direct neighbours.
PreH(i, j) == pre.H[<<i % Mx, j % My>>]
UnboundedStepFromOldThickness(c) ==
  LET i == c[1]
      j == c[2]
      m == pre.mask[c]
      f(k, l) == IF config.do_superpose /\ m = MASK_DRAGGING_SHEET
                 THEN fofv2(At(vel.ubarssa, k, l), At(vel.vbarssa, k, l))
                 ELSE 2
      S4(k, l) == f(i, j) * PreH(i, j) + f(k, l) * PreH(k, l)
      sia4 == IF config.computeSIAVelocities
              THEN At(vel.uvbar0, i, j) * S4(i+1, j) - At(vel.uvbar0, i-1, j) * S4(i-1, j)
                 + At(vel.uvbar1, i, j) * S4(i, j+1) - At(vel.uvbar1, i, j-1) * S4(i, j-1)
              ELSE 0
      u == At(vel.ub, i, j)
      v == At(vel.vb, i, j)
      adv == u * (IF u < 0 THEN PreH(i+1, j) - PreH(i, j) ELSE PreH(i, j) - PreH(i-1, j))
           + v * (IF v < 0 THEN PreH(i, j+1) - PreH(i, j) ELSE PreH(i, j) - PreH(i, j-1))
      dil2 == PreH(i, j) * ( At(vel.ub, i+1, j) - At(vel.ub, i-1, j)
                           + At(vel.vb, i, j+1) - At(vel.vb, i, j-1) )
      basal == IF ~config.include_bmr_in_continuity THEN 0
               ELSE IF is_floating(m) THEN shelfbmassflux[c] * dt
               ELSE vbasalMeltRate[c] * dt
  IN  PreH(i, j) + ((4 * acab[c] - sia4 - 4 * adv - 2 * dil2) * dt) \div 4 - basal
StepFromOldThickness(c) ==
  IF Killed(c) THEN 0 ELSE Max(0, UnboundedStepFromOldThickness(c))

\* C9: the new thickness of every cell is the step applied to the thickness
\* the cell and its direct neighbours had before the step; no value written
\* earlier in the same step is read.
C9_DoubleBuffered ==
  Returned("massCont") => \A c \in Cell : vH[c] = StepFromOldThickness(c)

\* a step with flow in which a cell and its western neighbour, visited
\* before it, both change
C9_Witness ==
  /\ Returned("massCont")
  /\ ~NoSliding
  /\ \E c \in Cell : /\ c[1] > 0
                     /\ vH[c] # pre.H[c]
                     /\ vH[<<c[1] - 1, c[2]>>] # pre.H[<<c[1] - 1, c[2]>>]
                     /\ At(vel.ub, c[1], c[2]) > 0

OceanCellsFloat ==
  Returned("update") =>
    \A c \in Cell : vMask[c] = MASK_OCEAN_AT_TIME_0 => vh[c] = hfloatingAt(c)
C7_AsStated ==
  [][ /\ \A c \in Cell : vMask[c] = MASK_OCEAN_AT_TIME_0
                           => vMask'[c] = MASK_OCEAN_AT_TIME_0
      /\ OceanCellsFloat' ]_vars

\* C7, amended: ... and after every updateSurfaceElevationAndMask of a
\* simulation that is not dry its surface elevation is hfloating (in a dry
\* simulation it is hgrounded = bed + H).
OceanCellsFloatUnlessDry ==
  Returned("update") =>
    \A c \in Cell : vMask[c] = MASK_OCEAN_AT_TIME_0 =>
      vh[c] = IF config.is_dry_simulation THEN hgroundedAt(c) ELSE hfloatingAt(c)
C7_OceanExclusionPersists ==
  [][ /\ \A c \in Cell : vMask[c] = MASK_OCEAN_AT_TIME_0
                           => vMask'[c] = MASK_OCEAN_AT_TIME_0
      /\ OceanCellsFloatUnlessDry' ]_vars

\* an OCEAN_AT_TIME_0 cell with ice on a bed that would ground it, after a
\* mass continuity step and an update
C7_Witness ==
  /\ Returned("update")
  /\ nsteps > 0
  /\ ~config.is_dry_simulation
  /\ \E c \in Cell : /\ vMask[c] = MASK_OCEAN_AT_TIME_0
                     /\ vH[c] > 0
                     /\ vh[c] = hfloatingAt(c)
                     /\ hgroundedAt(c) > hfloatingAt(c) + ocean_rho * hysteresis

\* C10: when updateSurfaceElevationAndMask has returned, every ghost copy of
\* h and of the mask equals the owner's value, and when massContExplicitStep
\* has returned every ghost copy of the thickness equals the owner's new
\* thickness.
C10_GhostsCurrent ==
  /\ Returned("update") => \A w \in Procs : gh[w] = vh /\ gMask[w] = vMask
  /\ Returned("massCont") => \A w \in Procs : gH[w] = vH

\* an update that changed h and the mask, after a step that changed H
C10_Witness ==
  /\ Returned("update")
  /\ nsteps > 0
  /\ vMask # pre.mask
  /\ vh # pre.h
  /\ \A w \in Procs : gh[w] = vh /\ gMask[w] = vMask /\ gH[w] = vH


C12_SlabThickens ==
  /\ (Returned("massCont") /\ nsteps = 1) => vH = Uniform(10001)
  /\ (Returned("update") /\ nsteps = 1) =>
        /\ vH = Uniform(10001)
        /\ vMask = Uniform(MASK_SHEET)
        /\ vh = Uniform(ocean_rho * 10001)

C12_Witness ==
  /\ Returned("update")
  /\ nsteps = 1
  /\ pre.h[cellB] = ocean_rho * 10000
  /\ vH[cellB] = 10001
  /\ vh[cellB] = ocean_rho * 10001
  /\ vMask[cellB] = MASK_SHEET


\* the hysteresis margin of the flotation tests, in the units of h
Margin == ocean_rho * hysteresis

\* C13: in a dry simulation updateSurfaceElevationAndMask sets h = bed + H at
\* every cell and leaves the mask of every cell as it was on entry, whatever
\* the mask was.
C13_DryKeepsMask ==
  (Returned("update") /\ config.is_dry_simulation) =>
    \A c \in Cell : vh[c] = hgroundedAt(c) /\ vMask[c] = pre.mask[c]

\* a dry run with a SHEET cell that the flotation criterion would let float,
\* a FLOATING cell, and a cell that held UNKNOWN
C13_Witness ==
  /\ Returned("update")
  /\ config.is_dry_simulation
  /\ \E c \in Cell : /\ pre.mask[c] = MASK_SHEET
                     /\ hgroundedAt(c) <= hfloatingAt(c) - Margin
                     /\ vMask[c] = MASK_SHEET
                     /\ vh[c] = hgroundedAt(c)
  /\ \E c \in Cell : pre.mask[c] = MASK_FLOATING /\ vMask[c] = MASK_FLOATING
  /\ \E c \in Cell : pre.mask[c] = MASK_UNKNOWN /\ vMask[c] = MASK_UNKNOWN

\* C14: when the simulation is not dry, a cell whose mask was FLOATING is
\* grounded after the update exactly when hgrounded > hfloating + 1 m; it then
\* has h = hgrounded and mask DRAGGING_SHEET with use_ssa_velocity and
\* do_plastic_till, SHEET without use_ssa_velocity, and the result of the
\* neighbour vote (SHEET or DRAGGING_SHEET) with use_ssa_velocity but without
\* do_plastic_till.
C14_FloatingCellGrounds ==
  (Returned("update") /\ ~config.is_dry_simulation) =>
    \A c \in Cell : pre.mask[c] = MASK_FLOATING =>
      IF hgroundedAt(c) > hfloatingAt(c) + Margin
      THEN /\ vh[c] = hgroundedAt(c)
           /\ (config.use_ssa_velocity /\ config.do_plastic_till)
                => vMask[c] = MASK_DRAGGING_SHEET
           /\ ~config.use_ssa_velocity => vMask[c] = MASK_SHEET
           /\ (config.use_ssa_velocity /\ ~config.do_plastic_till)
                => vMask[c] \in {MASK_SHEET, MASK_DRAGGING_SHEET}
      ELSE vMask[c] = MASK_FLOATING

\* a floating cell exactly at the margin stays floating while another one
\* beyond it becomes DRAGGING_SHEET
C14_Witness ==
  /\ Returned("update")
  /\ ~config.is_dry_simulation
  /\ config.use_ssa_velocity /\ config.do_plastic_till
  /\ \E c \in Cell : /\ pre.mask[c] = MASK_FLOATING
                     /\ hgroundedAt(c) = hfloatingAt(c) + Margin
                     /\ vMask[c] = MASK_FLOATING
  /\ \E c \in Cell : /\ pre.mask[c] = MASK_FLOATING
                     /\ hgroundedAt(c) > hfloatingAt(c) + Margin
                     /\ vMask[c] = MASK_DRAGGING_SHEET
                     /\ vh[c] = hgroundedAt(c)

\* C15, as stated: a cell whose mask was FLOATING and that does not meet the
\* hysteresis condition (hgrounded <= hfloating + 1 m) has h = hfloating and
\* mask FLOATING after updateSurfaceElevationAndMask.
C15_AsStated ==
  Returned("update") =>
    \A c \in Cell :
      (pre.mask[c] = MASK_FLOATING /\ hgroundedAt(c) <= hfloatingAt(c) + Margin)
        => vh[c] = hfloatingAt(c) /\ vMask[c] = MASK_FLOATING

\* C15, amended: ... after updateSurfaceElevationAndMask of a simulation that
\* is not dry (in a dry simulation h = bed + H).
C15_FloatingCellStaysAfloat ==
  (Returned("update") /\ ~config.is_dry_simulation) =>
    \A c \in Cell :
      (pre.mask[c] = MASK_FLOATING /\ hgroundedAt(c) <= hfloatingAt(c) + Margin)
        => vh[c] = hfloatingAt(c) /\ vMask[c] = MASK_FLOATING

\* H = 50 m, bed = -500 m, sea level 0: h = 4 m and the mask stays FLOATING
C15_Witness ==
  /\ Returned("update")
  /\ ~config.is_dry_simulation
  /\ currentSeaLevel = 0
  /\ vbed[cellA] = -50000
  /\ pre.H[cellA] = 5000
  /\ pre.mask[cellA] = MASK_FLOATING
  /\ vh[cellA] = ocean_rho * 400
  /\ vMask[cellA] = MASK_FLOATING

\* C16, as stated: a cell whose mask was SHEET or DRAGGING_SHEET stays
\* grounded exactly when hgrounded > hfloating - 1 m: it then has
\* h = hgrounded and keeps its mask, except that the mask is DRAGGING_SHEET
\* with use_ssa_velocity and do_plastic_till; otherwise it has h = hfloating
\* and mask FLOATING.
C16_AsStated ==
  Returned("update") =>
    \A c \in Cell : is_grounded(pre.mask[c]) =>
      IF hgroundedAt(c) > hfloatingAt(c) - Margin
      THEN /\ vh[c] = hgroundedAt(c)
           /\ vMask[c] = IF config.use_ssa_velocity /\ config.do_plastic_till
                         THEN MASK_DRAGGING_SHEET ELSE pre.mask[c]
      ELSE /\ vh[c] = hfloatingAt(c)
           /\ vMask[c] = MASK_FLOATING

\* C16, amended: the same, when the simulation is not dry (in a dry
\* simulation every cell has h = hgrounded and keeps its mask).
C16_GroundedCellUpdate ==
  (Returned("update") /\ ~config.is_dry_simulation) =>
    \A c \in Cell : is_grounded(pre.mask[c]) =>
      IF hgroundedAt(c) > hfloatingAt(c) - Margin
      THEN /\ vh[c] = hgroundedAt(c)
           /\ vMask[c] = IF config.use_ssa_velocity /\ config.do_plastic_till
                         THEN MASK_DRAGGING_SHEET ELSE pre.mask[c]
      ELSE /\ vh[c] = hfloatingAt(c)
           /\ vMask[c] = MASK_FLOATING

\* a grounded cell exactly at the margin becomes FLOATING while ice beyond
\* it keeps its DRAGGING_SHEET mask
C16_Witness ==
  /\ Returned("update")
  /\ ~config.is_dry_simulation
  /\ ~config.do_plastic_till
  /\ \E c \in Cell : /\ pre.mask[c] = MASK_SHEET
                     /\ hgroundedAt(c) = hfloatingAt(c) - Margin
                     /\ vMask[c] = MASK_FLOATING
                     /\ vh[c] = hfloatingAt(c)
  /\ \E c \in Cell : /\ pre.mask[c] = MASK_DRAGGING_SHEET
                     /\ hgroundedAt(c) > hfloatingAt(c) - Margin
                     /\ vMask[c] = MASK_DRAGGING_SHEET
                     /\ vh[c] = hgroundedAt(c)


\* the box stencil
Offsets == {o \in {-1, 0, 1} \X {-1, 0, 1} : o # <<0, 0>>}
\* a cell whose mask was set to UNKNOWN during the last update
SetUnknown(c) ==
  /\ ~config.is_dry_simulation
  /\ config.use_ssa_velocity /\ ~config.do_plastic_till
  /\ pre.mask[c] = MASK_FLOATING
  /\ hgroundedAt(c) > hfloatingAt(c) + Margin
\* the mask that the vote of cell c found at mask[i+o1][j+o2]: a cell of the
\* same process visited before c has its new mask, any other its old one
\* (an index outside the owned range is a ghost)
MaskReadByVote(c, o) ==
  LET i == c[1] + o[1]
      j == c[2] + o[2]
      n == <<i % Mx, j % My>>
      w == Owner(c)
      owned == xs(w) <= i /\ i < xs(w) + xm(w) /\ 0 <= j /\ j < My
      earlier == n[1] < c[1] \/ (n[1] = c[1] /\ n[2] < c[2])
  IN  IF owned /\ earlier THEN vMask[n] ELSE pre.mask[n]

MaskFromOldNeighbours(c) ==
  LET m == pre.mask[c]
      r == IF is_floating(m)
           THEN FloatingCell(m, hgroundedAt(c), hfloatingAt(c))
           ELSE GroundedCell(m, hgroundedAt(c), hfloatingAt(c))
      old == [o \in Offsets |->
                PismModMask(pre.mask[<<(c[1] + o[1]) % Mx, (c[2] + o[2]) % My>>])]
  IN  IF config.is_dry_simulation \/ m = MASK_OCEAN_AT_TIME_0 THEN m
      ELSE IF r.mask = MASK_UNKNOWN THEN VoteByNeighbors(SumOver(old, Offsets))
      ELSE r.mask

\* C18: the vote for an UNKNOWN cell reads only the masks its neighbours held
\* before the call began, so the mask after the call is the one computed from
\* the masks before the call, whatever the order of the cells.
C18_VoteReadsOldMasks ==
  Returned("update") => \A c \in Cell : vMask[c] = MaskFromOldNeighbours(c)


BasalTerm(c) ==
  IF is_floating(pre.mask[c]) THEN shelfbmassflux[c] * dt
  ELSE vbasalMeltRate[c] * dt

\* C20: without flow, at a cell that calving does not zero, the new thickness
\* is max(0, H + acab dt - S dt) with S the shelf base mass flux at a
\* floating cell and the basal melt rate at any other cell when
\* include_bmr_in_continuity is on (S is subtracted before the clamp), and
\* max(0, H + acab dt), whatever the basal fields, when it is off.
C20_BasalMassExchange ==
  (Returned("massCont") /\ NoSliding /\ NoSIAFlux) =>
    \A c \in Cell : ~Killed(c) =>
      vH[c] = IF config.include_bmr_in_continuity
              THEN Max(0, pre.H[c] + acab[c] * dt - BasalTerm(c))
              ELSE Max(0, pre.H[c] + acab[c] * dt)

\* basal melt is included and differs between shelf and grounded ice: a
\* floating cell has lost the shelf base flux and a grounded cell the basal
\* melt rate
C20_Witness ==
  /\ Returned("massCont")
  /\ NoSliding /\ NoSIAFlux
  /\ config.include_bmr_in_continuity
  /\ \E c \in Cell : /\ ~Killed(c)
                     /\ pre.mask[c] = MASK_FLOATING
                     /\ shelfbmassflux[c] # vbasalMeltRate[c]
                     /\ vH[c] > 0
                     /\ vH[c] = pre.H[c] + acab[c] * dt - shelfbmassflux[c] * dt
  /\ \E c \in Cell : /\ ~Killed(c)
                     /\ is_grounded(pre.mask[c])
                     /\ vH[c] > 0
                     /\ vH[c] = pre.H[c] + acab[c] * dt - vbasalMeltRate[c] * dt


\* C21: the sliding part of the step is upwinded: a negative velocity
\* component multiplies the forward thickness difference, a non-negative one
\* the backward difference, and the dilation term is the centered divergence
\* of the velocity times the thickness of the cell itself.  Without SIA flux,
\* mass balance and calving the new thickness is
\*   max(0, H - dt (u dH_upwind/dx + v dH_upwind/dy + H div(u,v))).
SlidingAdvection(c) ==
  LET i == c[1]
      j == c[2]
      u == At(vel.ub, i, j)
      v == At(vel.vb, i, j)
      dHx == IF u < 0 THEN PreH(i+1, j) - PreH(i, j) ELSE PreH(i, j) - PreH(i-1, j)
      dHy == IF v < 0 THEN PreH(i, j+1) - PreH(i, j) ELSE PreH(i, j) - PreH(i, j-1)
  IN  (u * dHx) \div dx + (v * dHy) \div dy
SlidingDilation(c) ==
  LET i == c[1]
      j == c[2]
  IN  PreH(i, j) * ( (At(vel.ub, i+1, j) - At(vel.ub, i-1, j)) \div (2 * dx)
                   + (At(vel.vb, i, j+1) - At(vel.vb, i, j-1)) \div (2 * dy) )
C21_SlidingIsUpwinded ==
  ( /\ Returned("massCont")
    /\ NoSIAFlux \/ ~config.computeSIAVelocities
    /\ acab = Uniform(0)
    /\ ~config.include_bmr_in_continuity )
  => \A c \in Cell : ~Killed(c) =>
       vH[c] = Max(0, pre.H[c] - dt * (SlidingAdvection(c) + SlidingDilation(c)))

\* ice slides against the x axis at one cell and along it at its neighbour,
\* both next to thinner ice, and the two differences are taken upstream
C21_Witness ==
  /\ Returned("massCont")
  /\ NoSIAFlux \/ ~config.computeSIAVelocities
  /\ \E c \in Cell : /\ At(vel.ub, c[1], c[2]) < 0
                     /\ PreH(c[1] + 1, c[2]) # PreH(c[1], c[2])
                     /\ PreH(c[1] - 1, c[2]) # PreH(c[1] + 1, c[2])
                     /\ vH[c] # pre.H[c]
  /\ \E c \in Cell : /\ At(vel.ub, c[1], c[2]) > 0
                     /\ PreH(c[1] - 1, c[2]) # PreH(c[1], c[2])
                     /\ PreH(c[1] - 1, c[2]) # PreH(c[1] + 1, c[2])
                     /\ vH[c] # pre.H[c]


\* C22: at a cell with ice the surface gradient of computeDrivingStress comes
\* from the transformed thickness, with the bed slope added and the cell's
\* own thickness floored at 5 m, exactly when the cell is grounded and the
\* transformation is switched on; every other cell with ice takes a
\* difference of h itself: with compute_surf_grad_inward_ssa the one-sided
\* difference that points into the domain (at its first and last row or
\* column), the centered one otherwise.
SurfaceDifference(c, dir) ==
  LET i == c[1]
      j == c[2]
      di == IF dir = 1 THEN 1 ELSE 0
      dj == IF dir = 1 THEN 0 ELSE 1
      k == IF dir = 1 THEN i ELSE j
      M == IF dir = 1 THEN Mx ELSE My
      d == IF dir = 1 THEN dx ELSE dy
  IN  IF config.compute_surf_grad_inward_ssa /\ k = 0
      THEN <<At(vh, i+di, j+dj) - vh[c], d>>
      ELSE IF config.compute_surf_grad_inward_ssa /\ k = M - 1
      THEN <<vh[c] - At(vh, i-di, j-dj), d>>
      ELSE <<At(vh, i+di, j+dj) - At(vh, i-di, j-dj), 2 * d>>
StressOf(c, dir) == IF dir = 1 THEN vtaudx[c] ELSE vtaudy[c]
C22_GradientSelection ==
  Returned("stress") =>
    \A c \in Cell : \A dir \in {1, 2} :
      vH[c] > 0 =>
        LET s == StressOf(c, dir)
            di == IF dir = 1 THEN 1 ELSE 0
            dj == IF dir = 1 THEN 0 ELSE 1
        IN  IF is_grounded(vMask[c]) /\ config.transformForSurfaceGradient
            THEN /\ s.form = "eta"
                 /\ s.myH = Max(vH[c], minThickEtaTransform)
                 /\ s.Hp = At(vH, c[1]+di, c[2]+dj)
                 /\ s.Hm = At(vH, c[1]-di, c[2]-dj)
                 /\ s.bedn = At(vbed, c[1]+di, c[2]+dj) - At(vbed, c[1]-di, c[2]-dj)
            ELSE /\ s.form = "diff"
                 /\ <<s.n, s.den>> = SurfaceDifference(c, dir)

\* both options on: a grounded cell with less than 5 m of ice takes the
\* floored thickness, and a floating cell in the first column takes a
\* one-sided difference that the centered one does not give
C22_Witness ==
  /\ Returned("stress")
  /\ config.transformForSurfaceGradient
  /\ config.compute_surf_grad_inward_ssa
  /\ \E c \in Cell : /\ is_grounded(vMask[c])
                     /\ vH[c] > 0 /\ vH[c] < minThickEtaTransform
                     /\ vtaudx[c].form = "eta"
                     /\ vtaudx[c].myH = minThickEtaTransform
  /\ \E c \in Cell : /\ is_floating(vMask[c])
                     /\ vH[c] > 0
                     /\ c[1] = 0
                     /\ vtaudx[c].form = "diff"
                     /\ vtaudx[c].n * 2 * dx
                          # (At(vh, c[1]+1, c[2]) - At(vh, c[1]-1, c[2])) * vtaudx[c].den


\* C23: after massContExplicitStep the diagnostic dH/dt of a cell is
\* (H' - H)/dt, replaced by the undefined marker where the new thickness is
\* zero; the domain sum of dH/dt is taken before the masking, so it holds
\* the change of every cell, those that lost all their ice included.
ThicknessChange == [c \in Cell |-> vH[c] - pre.H[c]]
C23_RateThenMask ==
  Returned("massCont") =>
    /\ \A c \in Cell :
         vdHdt[c] = IF vH[c] = 0 THEN GSL_NAN
                    ELSE [n |-> ThicknessChange[c], d |-> dt]
    /\ gdHdtav.n = SumOver(ThicknessChange, Cell)

\* a cell lost all its ice: its rate is undefined but its loss is in the
\* sum, which differs from the sum of the rates that stay defined
C23_Witness ==
  /\ Returned("massCont")
  /\ \E c \in Cell : pre.H[c] > 0 /\ vH[c] = 0 /\ vdHdt[c] = GSL_NAN
  /\ \E c \in Cell : vH[c] > 0 /\ vdHdt[c].n # 0 /\ vdHdt[c].d = dt
  /\ gdHdtav.n # SumOver([c \in Cell |-> vdHdt[c].n], Cell)


\* C24: massContExplicitStep reports the volume rate as the domain sum of
\* dH/dt times dx dy, and the average thickening rate as that sum divided by
\* the number of ice-covered cells of all processes, a cell being counted
\* when its thickness (the one the step starts from) is positive.
IceCovered == {c \in Cell : pre.H[c] > 0}
C24_ReportedRates ==
  Returned("massCont") =>
    /\ gicecount = Cardinality(IceCovered)
    /\ dvoldt = [n |-> SumOver(ThicknessChange, Cell) * dx * dy, d |-> dt]
    /\ gdHdtav = [n |-> SumOver(ThicknessChange, Cell),
                  d |-> dt * Cardinality(IceCovered)]

\* ice on a part of the grid that spans both processes, a nonzero sum, and a
\* step that changes the number of cells with ice
C24_Witness ==
  /\ Returned("massCont")
  /\ \E c \in Owned(0) : pre.H[c] > 0
  /\ \E c \in Owned(1) : pre.H[c] > 0
  /\ gicecount < Cardinality(Cell)
  /\ gicecount # Cardinality({c \in Cell : vH[c] > 0})
  /\ dvoldt.n # 0
  /\ gdHdtav.d = dt * gicecount

\* C25 (as stated): the divisor of the average thickening rate, the global
\* count of ice-covered cells, is positive after every step
C25_DivisorPositive ==
  Returned("massCont") => gicecount > 0 /\ gdHdtav.d > 0


\* C26: updateSurfaceElevationAndMask is idempotent: with thickness, bed,
\* sea level and configuration unchanged, a call that directly follows a
\* successful call changes neither h nor the mask of any cell.
C26_UpdateIdempotent ==
  [][ (Returned("update") /\ last' = "update")
        => (pc' = "run" /\ vh' = vh /\ vMask' = vMask) ]_vars

\* the state after a second call: it found the fields as it leaves them,
\* the first call had moved a cell off the surface of grounded ice, and a
\* cell lies within one metre of flotation
C26_Witness ==
  /\ Returned("update")
  /\ pre.h = vh /\ pre.mask = vMask
  /\ \E c \in Cell : vh[c] # hgroundedAt(c)
  /\ \E c \in Cell : /\ pre.H[c] > 0
                     /\ hgroundedAt(c) - hfloatingAt(c) < Margin
                     /\ hfloatingAt(c) - hgroundedAt(c) < Margin


\* C27 (as stated): the fields that updateSurfaceElevationAndMask and
\* massContExplicitStep produce do not depend on the partition of the grid
\* among the workers: h, mask and thickness are those of the partition
\* into single cells, where every neighbour is read from the halo, that is,
\* as it was at the last synchronization before the call.
SurfaceFromOldFields(c) ==
  LET m == pre.mask[c]
      hg == hgroundedAt(c)
      hf == hfloatingAt(c)
  IN  IF config.is_dry_simulation THEN DryCell(m, hg, hf).h
      ELSE IF m = MASK_OCEAN_AT_TIME_0 THEN OceanCell(m, hg, hf).h
      ELSE IF is_floating(m) THEN FloatingCell(m, hg, hf).h
      ELSE GroundedCell(m, hg, hf).h
C27_PartitionIndependent ==
  /\ Returned("update") =>
       \A c \in Cell : /\ vh[c] = SurfaceFromOldFields(c)
                       /\ vMask[c] = MaskFromOldNeighbours(c)
  /\ Returned("massCont") =>
       \A c \in Cell : vH[c] = StepFromOldThickness(c)


VisitedBefore(c, e) ==
  /\ Owner(c) = Owner(e)
  /\ c[1] < e[1] \/ (c[1] = e[1] /\ c[2] < e[2])
NewMaskWritten(c) ==
  LET m == pre.mask[c]
      r == IF is_floating(m)
           THEN FloatingCell(m, hgroundedAt(c), hfloatingAt(c))
           ELSE GroundedCell(m, hgroundedAt(c), hfloatingAt(c))
  IN  IF config.is_dry_simulation \/ m = MASK_OCEAN_AT_TIME_0 THEN vMask[c] = m
      ELSE IF r.mask = MASK_UNKNOWN
      THEN vMask[c] \in {MASK_SHEET, MASK_DRAGGING_SHEET}
      ELSE vMask[c] = r.mask
C29_FailureNotAtomic ==
  (last = "update" /\ pc = "error") =>
    /\ \A e \in errAt : \A c \in Owned(Owner(e)) :
         IF VisitedBefore(c, e)
         THEN vh[c] = SurfaceFromOldFields(c) /\ NewMaskWritten(c)
         ELSE vh[c] = pre.h[c] /\ vMask[c] = pre.mask[c]
    /\ \A w \in Procs : gh[w] = pre.h /\ gMask[w] = pre.mask

\* the cell before the offending one was set afloat, which its copy in the
\* halo of the other process does not show, and the cell after it would
\* have been set afloat too
C29_Witness ==
  /\ last = "update" /\ pc = "error"
  /\ errAt = {cellA}
  /\ vh[<<0, 0>>] # pre.h[<<0, 0>>]
  /\ vMask[<<0, 0>>] # pre.mask[<<0, 0>>]
  /\ gh[1][<<0, 0>>] # vh[<<0, 0>>]
  /\ gMask[1][<<0, 0>>] # vMask[<<0, 0>>]
  /\ vh[<<0, 2>>] = pre.h[<<0, 2>>]
  /\ SurfaceFromOldFields(<<0, 2>>) # pre.h[<<0, 2>>]


\* C30: init_step_couplers updates the surface and the ocean model once
\* each, with the same step length: the smallest of one year and of the step
\* lengths of the models that report a restriction, raised to 1 second when
\* that is shorter.
ActiveRestrictions ==
  {one_year}
    \cup {d \in {surface.max_dt} : surface.restrict}
    \cup {d \in {ocean.max_dt} : ocean.restrict}
C30_CommonCouplerStep ==
  (surface.updates # << >> \/ ocean.updates # << >>) =>
    /\ Len(surface.updates) = 1 /\ Len(ocean.updates) = 1
    /\ surface.updates[1] = ocean.updates[1]
    /\ surface.updates[1] >= 1
    /\ \/ /\ surface.updates[1] \in ActiveRestrictions
          /\ \A d \in ActiveRestrictions : surface.updates[1] <= d
       \/ /\ surface.updates[1] = 1
          /\ \E d \in ActiveRestrictions : d < 1

\* the ocean restricts the step to a day, the surface model hands back a
\* shorter step without restricting: both are updated over one day
C30_Witness ==
  /\ surface.updates = <<86400>>
  /\ ocean.updates = <<86400>>
  /\ ocean.restrict /\ ocean.max_dt = 86400
  /\ ~surface.restrict /\ surface.max_dt < 86400

====
